---- MODULE Spec2Model ----
(***************************************************************************)
(* The alphaTab player islands of the blog: the shared script loader, the  *)
(* AlphaTabPlayer component (its three revisions in the tree) and the      *)
(* AlphaTabSimplePlayer component, as one state machine over the page.     *)
(*                                                                         *)
(* Granularity.  One action is one browser task: a user gesture or a prop  *)
(* change together with the React commit and the effects it triggers, a    *)
(* script load/error event together with the promise reactions it queues   *)
(* (microtasks run before the next task), a completed file read, or one    *)
(* event raised by the library.  State the claims never read (zoom,        *)
(* layout, metronome, count-in, song position, sound-font progress, the    *)
(* loading overlay and the player-ready flag) is left out.                 *)
(*                                                                         *)
(* Specifications.  Spec: one AlphaTabPlayer and all that can happen to    *)
(* it.  SpecPage: the players and the simple player sharing the script.    *)
(* SpecTex: the tex fallback of part_000.  SpecSimple: the simple player   *)
(* under a re-rendering parent.  SpecColors and SpecPath: the pure         *)
(* functions applyScoreColors and getPath applied to bounded inputs.       *)
(***************************************************************************)
EXTENDS Integers, Sequences, FiniteSets, TLC

\* ---------------------------------------------------------------- bounds
MaxApis == 3        \* instances a looping component may go through
MaxChanges == 1     \* prop changes per mounted player

Players == {1, 2}   \* AlphaTabPlayer slots on the page
Tracks == {0, 1}    \* track indexes a score can have

\* The revisions of AlphaTabPlayer found in the tree.
Variants == {"tsx", "p001", "p000"}

\* ------------------------------------------------------- program values
NoError == "none"
MsgLoadFail == "cannot load alphaTab.js runtime"
MsgUnavailable == "alphaTab.js runtime unavailable"
MsgNoHost == "alphaTab container not found"
MsgReadFail == "file read failed"

NoTex == "none"

\* if (texFallback): null and the empty string are both falsy.
Truthy(text) == text \notin {NoTex, ""}
NoScore == [tracks |-> {}, loaded |-> FALSE]

\* The score the library builds from what it was given: a property of the
\* data, here one single-track file and multi-track scores otherwise.
ScoreOf(v) ==
  [tracks |-> IF v \in {"bytesA", "bytes0"} THEN {0} ELSE Tracks,
   loaded |-> TRUE]

Files == {"fA"}
BufferOf(f) == IF f = "fA" THEN "bytesA" ELSE "bytesB"
TextOf(u) == IF u = "u1" THEN "textU1" ELSE "textOther"

AlphaTabSource ==
  {[type |-> "url", value |-> "u1"],
   [type |-> "file", value |-> "fA"],
   [type |-> "arrayBuffer", value |-> "bytes0"],
   [type |-> "alphaTex", value |-> "tex1"]}

SoundFonts == {"default", "custom"}

VARIABLES
  variant,          \* which revision of AlphaTabPlayer the page bundles
  rt,               \* what the CDN build provides: loadAlphaTex, renderTracks
  alphaTab,         \* window.alphaTab is defined
  script,           \* the <script src=ALPHATAB_CDN> elements of the document
  alphaTabLoader,   \* module variable of AlphaTabPlayer
  runtimePromise,   \* module variable of AlphaTabSimplePlayer
  players,          \* AlphaTabPlayer component instances
  simple,           \* the AlphaTabSimplePlayer component instance
  apis,             \* AlphaTabApi instances constructed so far
  reads,            \* file reads and fetches in flight
  hist,             \* history: completed reads, unhandled rejections
  pure              \* argument and result of the pure function under study

vars == <<variant, rt, alphaTab, script, alphaTabLoader, runtimePromise,
          players, simple, apis, reads, hist, pure>>

\* The mutable part of the state, as the value the handlers transform.
World ==
  [alphaTab |-> alphaTab, script |-> script, alphaTabLoader |-> alphaTabLoader,
   runtimePromise |-> runtimePromise, players |-> players, simple |-> simple,
   apis |-> apis, reads |-> reads, hist |-> hist]

Commit(W) ==
  /\ alphaTab' = W.alphaTab
  /\ script' = W.script
  /\ alphaTabLoader' = W.alphaTabLoader
  /\ runtimePromise' = W.runtimePromise
  /\ players' = W.players
  /\ simple' = W.simple
  /\ apis' = W.apis
  /\ reads' = W.reads
  /\ hist' = W.hist
  /\ UNCHANGED <<variant, rt, pure>>

\* ------------------------------------------------- the library instance
NewApi(owner, tex, text) ==
  [owner |-> owner, destroyed |-> 0, isLooping |-> FALSE, tex |-> tex,
   hostText |-> text, loads |-> <<>>, tracks |-> {}]

\* Any method invoked on an instance: remembers a use after destroy.
ApiLoad(W, a, m, src, k, v, rid) ==
  LET c == [m |-> m, src |-> src, k |-> k, v |-> v, rid |-> rid]
  IN [W EXCEPT !.apis[a].loads = Append(@, c)]

\* destroy(): the instance releases what it held.
ApiDestroy(W, a) ==
  [W EXCEPT !.apis[a].destroyed = @ + 1, !.apis[a].tracks = {},
            !.apis[a].isLooping = FALSE]

ApiRenderTracks(W, a, ts) == [W EXCEPT !.apis[a].tracks = ts]

ApiRender(W, a) == W

\* ------------------------------------------------------ AlphaTabPlayer
\* resolveThemeColor(cssVar, fallback): the computed colour of a probe
\* element under document.body, hence the value the variable has under the
\* theme attribute of the document at the moment of the call.
resolveThemeColor(cssVar, docDark) ==
  [var |-> cssVar, theme |-> IF docDark THEN "dark" ELSE "light"]

\* The colour literal of part_001 and the tsx revision.
FixedTone == [var |-> "#d1d5db", theme |-> "any"]
NoTone == [var |-> "none", theme |-> "none"]

NewPlayer(life) ==
  [life |-> life,
   source |-> [type |-> "url", value |-> "u1"],
   soundFontUrl |-> "default", isDarkMode |-> FALSE, forceAlphaTex |-> FALSE,
   status |-> "boot", error |-> NoError, runtimeReady |-> FALSE,
   isLooping |-> FALSE,
   activeTracks |-> {}, score |-> NoScore, scoreRef |-> NoScore,
   scoreDark |-> FALSE, scoreTone |-> NoTone, apiRef |-> 0, pendingAlphaTexRef |-> NoTex,
   reinit |-> FALSE, waiters |-> <<>>, hasCleanup |-> FALSE,
   isTrackDialogOpen |-> FALSE, nChanges |-> 0]

\* The JSX: the error panel replaces the viewport and the controls.
ErrorPanel(P) ==
  IF variant = "tsx" THEN P.status = "error" ELSE P.error # NoError

\* mainRef.current && viewportRef.current: the divs exist while the
\* component is mounted and renders the player branch.
HostPresent(P) == P.life = "mounted" /\ ~ErrorPanel(P)

\* setError / setErrorMessage + setStatus("error") on a mounted component
\* (a state setter of an unmounted component does nothing).
SetError(W, p, msg) ==
  IF W.players[p].life # "mounted" THEN W
  ELSE IF variant = "tsx"
       THEN [W EXCEPT !.players[p].error = msg, !.players[p].status = "error"]
       ELSE [W EXCEPT !.players[p].error = msg]

AddPending(W, p, a, src, kind) ==
  LET r == [id |-> W.hist.rid, p |-> p, api |-> a, src |-> src, kind |-> kind]
  IN [W EXCEPT !.reads = @ \cup {r}, !.hist.rid = @ + 1]

\* The alphaTex case with the feature test dropped: the text always goes
\* to load.
loadTexViaLoad(W, p, a, d) ==
  ApiLoad(W, a, "load", d, "text", d.value, 0)

\* The alphaTex case of loadSource: loadAlphaTex when the instance has it;
\* otherwise load (part_001, tsx) or a rebuild in tex mode (part_000).
loadTex(W, p, a, d) ==
  IF rt.loadAlphaTex
  THEN ApiLoad(W, a, "loadAlphaTex", d, "text", d.value, 0)
  ELSE IF variant = "p000"
       THEN [W EXCEPT !.players[p].pendingAlphaTexRef = d.value,
                      !.players[p].reinit = TRUE]
       ELSE ApiLoad(W, a, "load", d, "text", d.value, 0)

\* loadSource with the file case written like the url case: the File
\* object itself goes to load, no read is awaited.
loadSourceUnread(W, p, explicitApi) ==
  LET P == W.players[p]
      a == IF explicitApi # 0 /\ variant # "tsx" THEN explicitApi ELSE P.apiRef
      d == P.source
  IN IF a = 0 THEN W
     ELSE CASE d.type = "url" ->
                 IF variant = "p000" /\ P.forceAlphaTex
                 THEN AddPending(W, p, a, d, "fetch")
                 ELSE ApiLoad(W, a, "load", d, "url", d.value, 0)
            [] d.type = "file" -> ApiLoad(W, a, "load", d, "file", d.value, 0)
            [] d.type = "arrayBuffer" ->
                 ApiLoad(W, a, "load", d, "buffer", d.value, 0)
            [] d.type = "alphaTex" ->
                 loadTex(W, p, a, d)

\* loadSource (part_000, part_001) / loadSourceDescriptor (tsx), up to its
\* first await.
loadSource(W, p, explicitApi) ==
  LET P == W.players[p]
      a == IF explicitApi # 0 /\ variant # "tsx" THEN explicitApi ELSE P.apiRef
      d == P.source
  IN IF a = 0 THEN W
     ELSE CASE d.type = "url" ->
                 IF variant = "p000" /\ P.forceAlphaTex
                 THEN AddPending(W, p, a, d, "fetch")
                 ELSE ApiLoad(W, a, "load", d, "url", d.value, 0)
            [] d.type = "file" -> AddPending(W, p, a, d, "read")
            [] d.type = "arrayBuffer" ->
                 ApiLoad(W, a, "load", d, "buffer", d.value, 0)
            [] d.type = "alphaTex" ->
                 loadTex(W, p, a, d)

\* loadAlphaTabRuntime that forgets a rejected promise: the next call
\* appends a script again and waits for it.
loadAlphaTabRuntimeRetry(W) ==
  IF W.alphaTab THEN [w |-> W, promise |-> "resolved"]
  ELSE IF W.alphaTabLoader.state \in {"null", "rejected"}
       THEN [w |-> [W EXCEPT !.script =
                               [count |-> @.count + 1, state |-> "loading",
                                on |-> "player", listener |-> FALSE],
                             !.alphaTabLoader =
                               [state |-> "pending", made |-> @.made + 1]],
             promise |-> "pending"]
       ELSE [w |-> W, promise |-> W.alphaTabLoader.state]

\* loadAlphaTabRuntime without the module-level promise and without the
\* look-up of an existing script: every caller injects and waits on its own.
loadAlphaTabRuntimeUnshared(W) ==
  IF W.alphaTab THEN [w |-> W, promise |-> "resolved"]
  ELSE IF W.alphaTabLoader.state \in {"null", "pending"}
       THEN [w |-> [W EXCEPT !.script =
                               [count |-> @.count + 1, state |-> "loading",
                                on |-> "player", listener |-> FALSE],
                             !.alphaTabLoader =
                               [state |-> "pending", made |-> @.made + 1]],
             promise |-> "pending"]
       ELSE [w |-> W, promise |-> W.alphaTabLoader.state]

\* loadAlphaTabRuntime: the promise the caller gets is "resolved",
\* "rejected" or "pending"; a first call creates the shared promise and
\* appends the script unless the document already holds one.
loadAlphaTabRuntime(W) ==
  IF W.alphaTab THEN [w |-> W, promise |-> "resolved"]
  ELSE IF W.alphaTabLoader.state = "null"
       THEN LET existing == W.script.count > 0
                s == IF existing
                     THEN [W.script EXCEPT !.on = "player"]
                     ELSE [count |-> 1, state |-> "loading", on |-> "player",
                           listener |-> FALSE]
            IN [w |-> [W EXCEPT !.script = s,
                                !.alphaTabLoader =
                                   [state |-> "pending", made |-> @.made + 1]],
                promise |-> "pending"]
       ELSE [w |-> [W EXCEPT !.hist.lateCall =
                               @ \/ W.alphaTabLoader.state = "rejected"],
             promise |-> W.alphaTabLoader.state]

\* The source effect: useEffect(..., [loadSource, source]) and, in tsx,
\* useEffect(..., [loadSourceDescriptor, runtimeReady, source]).
SourceEffect(W, p) ==
  LET P == W.players[p]
  IN IF variant = "tsx"
     THEN IF ~P.runtimeReady \/ P.apiRef = 0 THEN W
          ELSE loadSource([W EXCEPT !.players[p].status = "loading"], p, 0)
     ELSE IF P.apiRef = 0 THEN W ELSE loadSource(W, p, 0)

\* The catch handler with the disposed test inverted.
CatchStepInverted(W, p, disposed, msg) ==
  IF ~disposed THEN W ELSE SetError(W, p, msg)

\* .catch(err => { if (disposed) return; setError(...); setIsLoading(false) })
CatchStep(W, p, disposed, msg) ==
  IF disposed THEN W ELSE SetError(W, p, msg)

\* The then-callback without the test of window.alphaTab: it goes on to
\* construct an instance.
ThenBodyUnchecked(W, p, rendered) ==
  LET P == W.players[p]
  IN IF ~HostPresent(P)
     THEN CatchStep(W, p, FALSE, IF variant = "tsx" THEN MsgNoHost
                                 ELSE MsgUnavailable)
     ELSE [W EXCEPT !.apis = Append(@, NewApi(p, FALSE, "")),
                    !.players[p].apiRef = Len(W.apis) + 1]

\* The body of .then(() => {...}) once the disposed check has passed.
\* rendered: the runtimeReady value of the last commit (tsx), which decides
\* whether setRuntimeReady(true) re-runs the source effect.
ThenBody(W, p, rendered) ==
  LET P == W.players[p]
  IN IF ~W.alphaTab \/ (variant # "tsx" /\ ~HostPresent(P))
     THEN CatchStep(W, p, FALSE, MsgUnavailable)
     ELSE IF ~HostPresent(P)
          THEN CatchStep(W, p, FALSE, MsgNoHost)
          ELSE LET tex == variant = "p000" /\ Truthy(P.pendingAlphaTexRef)
                   a == Len(W.apis) + 1
                   text == IF tex THEN P.pendingAlphaTexRef ELSE ""
                   W1 == [W EXCEPT
                            !.apis = Append(@, NewApi(p, tex, text)),
                            !.players[p].apiRef = a,
                            !.players[p].runtimeReady = (variant = "tsx")]
               IN IF tex
                  THEN [W1 EXCEPT !.players[p].pendingAlphaTexRef = NoTex]
                  ELSE LET W2 == loadSource(W1, p, a)
                       IN IF variant = "tsx" /\ ~rendered
                          THEN SourceEffect(W2, p)
                          ELSE W2

\* The then callback without its disposed test.
ThenStepUndisposed(W, p, disposed, rendered) == ThenBody(W, p, rendered)

\* .then(() => { if (disposed) return; ... })
ThenStep(W, p, disposed, rendered) ==
  IF disposed THEN W ELSE ThenBody(W, p, rendered)

\* A cleanup that drops the reference without calling destroy.
CleanupNoDestroy(W, p) ==
  LET P == W.players[p]
      n == Len(P.waiters)
      ws == IF n > 0 THEN [P.waiters EXCEPT ![n] = TRUE] ELSE P.waiters
      P1 == [P EXCEPT !.waiters = ws, !.apiRef = 0, !.scoreRef = NoScore,
                      !.hasCleanup = FALSE]
      P2 == IF variant = "tsx"
            THEN [P1 EXCEPT !.runtimeReady = FALSE, !.activeTracks = {}]
            ELSE P1
  IN [W EXCEPT !.players[p] = P2]

\* The cleanup returned by the runtime effect.
Cleanup(W, p) ==
  LET P == W.players[p]
      n == Len(P.waiters)
      ws == IF n > 0 THEN [P.waiters EXCEPT ![n] = TRUE] ELSE P.waiters
      W1 == IF P.apiRef # 0 THEN ApiDestroy(W, P.apiRef) ELSE W
      P1 == [P EXCEPT !.waiters = ws, !.apiRef = 0, !.scoreRef = NoScore,
                      !.hasCleanup = FALSE]
      P2 == IF variant = "tsx"
            THEN [P1 EXCEPT !.runtimeReady = FALSE, !.activeTracks = {}]
            ELSE P1
  IN [W1 EXCEPT !.players[p] = P2]

\* The runtime effect body.
RuntimeEffect(W, p, rendered) ==
  LET P == W.players[p]
  IN IF ~HostPresent(P) THEN [W EXCEPT !.players[p].hasCleanup = FALSE]
     ELSE LET P1 == IF variant = "tsx"
                    THEN [P EXCEPT !.status = "loading", !.error = NoError,
                                   !.hasCleanup = TRUE]
                    ELSE [P EXCEPT !.error = NoError, !.hasCleanup = TRUE]
              r == loadAlphaTabRuntime([W EXCEPT !.players[p] = P1])
          IN CASE r.promise = "pending" ->
                    [r.w EXCEPT !.players[p].waiters = Append(@, FALSE)]
               [] r.promise = "resolved" -> ThenStep(r.w, p, FALSE, rendered)
               [] r.promise = "rejected" ->
                    CatchStep(r.w, p, FALSE, MsgLoadFail)

\* A change of one of the runtime effect's dependencies: cleanup, then the
\* effect again.
RerunRuntimeEffect(W, p) ==
  LET rendered == W.players[p].runtimeReady
      W1 == IF W.players[p].hasCleanup THEN Cleanup(W, p) ELSE W
  IN RuntimeEffect(W1, p, rendered)

\* setReinitKey(k => k + 1) of part_000 took effect: the runtime effect
\* re-runs (reinitKey is one of its dependencies).
\* The re-run may itself ask for another one, taken by the next commit.
FlushReinit(W, p) ==
  IF W.players[p].reinit /\ W.players[p].life = "mounted"
  THEN RerunRuntimeEffect([W EXCEPT !.players[p].reinit = FALSE], p)
  ELSE [W EXCEPT !.players[p].reinit = FALSE]

\* applyScoreColors(score, darkMode) as far as the component sees it.
\* docDark: the document's data-theme is "dark" when it is called.
applyScoreColors(W, p, darkMode, docDark) ==
  IF ~W.alphaTab \/ ~W.players[p].scoreRef.loaded THEN W
  ELSE LET primaryTone == IF variant = "p000"
                          THEN resolveThemeColor("--text-secondary", docDark)
                          ELSE FixedTone
       IN [W EXCEPT !.players[p].scoreDark = darkMode,
                    !.players[p].scoreTone =
                       IF darkMode THEN primaryTone ELSE NoTone]

\* The theme effect: useEffect(..., [isDarkMode]).
ThemeEffect(W, p, docDark) ==
  LET P == W.players[p]
  IN IF P.scoreRef.loaded
     THEN LET W1 == applyScoreColors(W, p, P.isDarkMode, docDark)
          IN IF P.apiRef # 0 THEN ApiRender(W1, P.apiRef) ELSE W1
     ELSE W


\* --------------------------------------------- AlphaTabPlayer: settling
\* The reactions of one component to the settled loader promise: one
\* .then/.catch pair per effect run that subscribed while it was pending.
RECURSIVE RunWaiters(_, _, _, _)
RunWaiters(W, p, ws, outcome) ==
  IF ws = <<>> THEN W
  ELSE LET W1 == IF outcome = "resolved"
                 THEN ThenStep(W, p, Head(ws), W.players[p].runtimeReady)
                 ELSE CatchStep(W, p, Head(ws), MsgLoadFail)
       IN RunWaiters(W1, p, Tail(ws), outcome)

RECURSIVE SettlePlayers(_, _, _)
SettlePlayers(W, n, outcome) ==
  IF n = 0 THEN W
  ELSE LET W0 == SettlePlayers(W, n - 1, outcome)
           W1 == RunWaiters(W0, n, W0.players[n].waiters, outcome)
       IN FlushReinit([W1 EXCEPT !.players[n].waiters = <<>>], n)

\* script.onload = () => resolve(); script.onerror = () => reject(...)
SettleLoader(W, outcome) ==
  IF W.alphaTabLoader.state # "pending" THEN W
  ELSE SettlePlayers([W EXCEPT !.alphaTabLoader.state = outcome],
                     Cardinality(Players), outcome)

\* ------------------------------------------------ AlphaTabSimplePlayer
MsgNotInjected == "alphaTab runtime not injected and autoLoadScript=false"
MsgScriptFail == "alphaTab script failed to load"

NewSimple(life) ==
  [life |-> life, autoLoadScript |-> TRUE,
   source |-> [type |-> "url", value |-> "u1"],
   status |-> "init", error |-> NoError, apiRef |-> 0, waiters |-> <<>>,
   onApi |-> 0, onApiId |-> 0]

\* ensureRuntime that ignores autoLoad and injects whenever the runtime is
\* missing.
ensureRuntimeAlwaysLoads(W, autoLoad) ==
  IF W.alphaTab THEN [w |-> W, promise |-> "resolved", msg |-> NoError]
  ELSE IF W.runtimePromise.state = "null"
       THEN [w |-> [W EXCEPT !.script =
                               [count |-> @.count + 1, state |-> "loading",
                                on |-> "simple", listener |-> FALSE],
                             !.runtimePromise =
                               [state |-> "pending", made |-> @.made + 1]],
             promise |-> "pending", msg |-> NoError]
       ELSE [w |-> W, promise |-> W.runtimePromise.state,
             msg |-> MsgScriptFail]

\* ensureRuntime(autoLoad)
ensureRuntime(W, autoLoad) ==
  IF W.alphaTab THEN [w |-> W, promise |-> "resolved", msg |-> NoError]
  ELSE IF ~autoLoad
       THEN [w |-> W, promise |-> "rejected", msg |-> MsgNotInjected]
       ELSE IF W.runtimePromise.state = "null"
            THEN LET existing == W.script.count > 0
                     s == IF existing
                          THEN [W.script EXCEPT !.listener = TRUE]
                          ELSE [count |-> 1, state |-> "loading",
                                on |-> "simple", listener |-> FALSE]
                 IN [w |-> [W EXCEPT !.script = s,
                                     !.runtimePromise =
                                        [state |-> "pending",
                                         made |-> @.made + 1]],
                     promise |-> "pending", msg |-> NoError]
            ELSE [w |-> W, promise |-> W.runtimePromise.state,
                  msg |-> MsgScriptFail]

\* createApi(texMode)
createApi(W, texMode) ==
  LET S == W.simple
  IN IF S.life # "mounted" \/ ~W.alphaTab THEN [w |-> W, api |-> 0]
     ELSE LET W1 == IF S.apiRef # 0 THEN ApiDestroy(W, S.apiRef) ELSE W
              a == Len(W1.apis) + 1
              text == IF texMode THEN S.source.value ELSE ""
          IN [w |-> [W1 EXCEPT !.apis = Append(@, NewApi(0, texMode, text)),
                               !.simple.apiRef = a, !.simple.onApi = a],
              api |-> a]

\* The score effect of the simple player, run after a commit that changed
\* status or the source.
ScoreEffect(W) ==
  LET S == W.simple
      d == S.source
      texMode == d.type = "alphaTex"
  IN IF S.status # "ready" \/ ~W.alphaTab THEN W
     ELSE LET c == createApi(W, texMode)
              W1 == [c.w EXCEPT !.simple.status = "loading-score",
                                !.simple.error = NoError]
          IN IF c.api = 0 THEN c.w
             ELSE IF texMode
                  THEN IF rt.loadAlphaTex
                       THEN ApiLoad(W1, c.api, "loadAlphaTex", d, "text",
                                    d.value, 0)
                       ELSE ApiRender(W1, c.api)
                  ELSE IF d.type = "url"
                       THEN ApiLoad(W1, c.api, "load", d, "url", d.value, 0)
                       ELSE IF d.type = "file"
                            THEN ApiLoad(W1, c.api, "load", d, "file",
                                         d.value, 0)
                            ELSE ApiLoad(W1, c.api, "load", d, "buffer",
                                         d.value, 0)

\* setStatus(next) of the simple player, with the commit it causes.
SimpleSetStatus(W, next) ==
  IF W.simple.life # "mounted" \/ W.simple.status = next THEN W
  ELSE ScoreEffect([W EXCEPT !.simple.status = next])

\* .then(() => { if (cancelled) return; setStatus("ready") })
\* .catch(e => { if (cancelled) return; setError(...); setStatus("error") })
SimpleSettleStep(W, cancelled, outcome, msg) ==
  IF cancelled THEN W
  ELSE IF outcome = "resolved" THEN SimpleSetStatus(W, "ready")
       ELSE SimpleSetStatus([W EXCEPT !.simple.error = msg], "error")

RECURSIVE SimpleRunWaiters(_, _, _)
SimpleRunWaiters(W, ws, outcome) ==
  IF ws = <<>> THEN W
  ELSE SimpleRunWaiters(SimpleSettleStep(W, Head(ws), outcome, MsgScriptFail),
                        Tail(ws), outcome)

SettleRuntimePromise(W, outcome) ==
  IF W.runtimePromise.state # "pending" THEN W
  ELSE LET W1 == [W EXCEPT !.runtimePromise.state = outcome]
           W2 == SimpleRunWaiters(W1, W1.simple.waiters, outcome)
       IN [W2 EXCEPT !.simple.waiters = <<>>]

\* The runtime effect of the simple player.
SimpleRuntimeEffect(W) ==
  LET W1 == [W EXCEPT !.simple.status = "loading-runtime"]
      r == ensureRuntime(W1, W1.simple.autoLoadScript)
  IN IF r.promise = "pending"
     THEN [r.w EXCEPT !.simple.waiters = Append(@, FALSE)]
     ELSE SimpleSettleStep(r.w, FALSE, r.promise, r.msg)


\* ------------------------------------------- AlphaTabPlayer: handlers
\* handleTrackClick as a plain toggle: the last active track can be
\* switched off, the tsx revision toggles as well.
handleTrackClickPlain(W, p, t) ==
  LET P == W.players[p]
      a == P.apiRef
      next == IF t \in P.activeTracks THEN P.activeTracks \ {t}
              ELSE P.activeTracks \cup {t}
  IN IF a = 0 \/ (variant # "tsx" /\ ~rt.renderTracks) THEN W
     ELSE [ApiRenderTracks(W, a, next) EXCEPT !.players[p].activeTracks = next]

handleTrackClick(W, p, t) ==
  LET P == W.players[p]
      a == P.apiRef
  IN IF variant = "tsx"
     THEN IF a = 0 THEN W
          ELSE [ApiRenderTracks(W, a, {t}) EXCEPT
                  !.players[p].activeTracks = {t}]
     ELSE IF a = 0 \/ ~rt.renderTracks THEN W
          ELSE LET prev == P.activeTracks
                   isActive == t \in prev
               IN IF isActive /\ Cardinality(prev) <= 1 THEN W
                  ELSE LET next == IF isActive THEN prev \ {t}
                                   ELSE prev \cup {t}
                           available == W.apis[a].tracks \cup P.scoreRef.tracks
                           resolvedTracks == next \cap available
                           W1 == IF resolvedTracks # {}
                                 THEN ApiRenderTracks(W, a, resolvedTracks)
                                 ELSE W
                       IN [W1 EXCEPT !.players[p].activeTracks = next]

\* toggleLoop that negates the instance's flag instead of the state.
toggleLoopOfApi(W, p) ==
  LET P == W.players[p]
      a == P.apiRef
  IN IF a = 0 THEN W
     ELSE LET next == ~W.apis[a].isLooping
          IN [W EXCEPT !.apis[a].isLooping = next,
                       !.players[p].isLooping = next]

toggleLoop(W, p) ==
  LET P == W.players[p]
      a == P.apiRef
      next == ~P.isLooping
  IN IF a = 0 THEN W
     ELSE [W EXCEPT !.apis[a].isLooping = next, !.players[p].isLooping = next]

\* The handlers registered on the instance's events.
onRenderStarted(W, p, a) ==
  IF variant = "tsx" THEN W
  ELSE [W EXCEPT !.players[p].activeTracks = W.apis[a].tracks]

onRenderFinished(W, p, a) ==
  IF variant = "tsx"
  THEN [W EXCEPT !.players[p].status = "ready",
                 !.players[p].activeTracks =
                    IF W.apis[a].tracks # {} THEN W.apis[a].tracks ELSE @]
  ELSE W

onPlayerReady(W, p, a) ==
  LET W1 == [W EXCEPT !.players[p].isLooping = W.apis[a].isLooping]
  IN IF variant = "tsx" THEN [W1 EXCEPT !.players[p].status = "ready"] ELSE W1

onScoreLoaded(W, p, a, sc) ==
  LET W1 == [W EXCEPT !.players[p].scoreRef = sc, !.players[p].score = sc]
      W2 == applyScoreColors(W1, p, W1.players[p].isDarkMode,
                             W1.players[p].isDarkMode)
  IN IF variant = "tsx" /\ sc.tracks # {}
     THEN [ApiRenderTracks(W2, a, sc.tracks) EXCEPT
             !.players[p].activeTracks = sc.tracks]
     ELSE W2

\* The continuation of loadSource after `await file.arrayBuffer()` or, with
\* forceAlphaTex, after `await fetch(url)` and `await res.text()`.
Done(W, r, ok) ==
  [W EXCEPT !.reads = @ \ {r},
            !.hist.done = @ \cup {[id |-> r.id, src |-> r.src, ok |-> ok]}]

\* The fetched url handed to load as it is, the response text unused.
loadFetchedUrl(W, r) ==
  ApiLoad(Done(W, r, TRUE), r.api, "load", r.src, "url", r.src.value, r.id)

\* The response text goes to loadAlphaTex, or to load without it.
loadFetched(W, r) ==
  IF rt.loadAlphaTex
  THEN ApiLoad(Done(W, r, TRUE), r.api, "loadAlphaTex", r.src, "text",
               TextOf(r.src.value), r.id)
  ELSE ApiLoad(Done(W, r, TRUE), r.api, "load", r.src, "text",
               TextOf(r.src.value), r.id)

resolveRead(W, r) ==
  IF r.kind = "read"
  THEN ApiLoad(Done(W, r, TRUE), r.api, "load", r.src, "buffer",
               BufferOf(r.src.value), r.id)
  ELSE loadFetched(W, r)

\* The call that takes the fetched text throws: the inner catch falls back
\* to api.load(url).
resolveReadThrown(W, r) ==
  ApiLoad(loadFetched(W, r), r.api, "load", r.src, "url", r.src.value, r.id)

\* A rejected read that nothing catches.
rejectReadUncaught(W, r) ==
  IF r.kind = "read"
  THEN [Done(W, r, FALSE) EXCEPT !.hist.unhandled = TRUE]
  ELSE ApiLoad(Done(W, r, FALSE), r.api, "load", r.src, "url", r.src.value,
               r.id)

\* A rejected read reaches the catch block of loadSource (part_000) or the
\* .catch of the caller (part_001, tsx); a failed fetch falls back to
\* api.load(url).
rejectRead(W, r) ==
  IF r.kind = "read"
  THEN SetError(Done(W, r, FALSE), r.p, MsgReadFail)
  ELSE ApiLoad(Done(W, r, FALSE), r.api, "load", r.src, "url", r.src.value,
               r.id)

\* ----------------------------------------------------------- the actions
Alive(a) == a \in 1..Len(apis) /\ apis[a].destroyed = 0

\* First commit of a player with props source = s, isDarkMode = d,
\* forceAlphaTex = f (a prop only part_000 has): the theme effect, the
\* runtime effect, and the source effect, which finds apiRef null.
Mount(p, s, d, f) ==
  /\ players[p].life = "unmounted"
  /\ f => variant = "p000"
  /\ LET P == [NewPlayer("mounted") EXCEPT
                 !.source = s, !.isDarkMode = d, !.forceAlphaTex = f]
         W == [World EXCEPT !.players[p] = P]
     IN Commit(FlushReinit(RuntimeEffect(ThemeEffect(W, p, d), p, FALSE), p))

Unmount(p) ==
  /\ players[p].life = "mounted"
  /\ LET W == IF players[p].hasCleanup THEN Cleanup(World, p) ELSE World
     IN Commit([W EXCEPT !.players[p].life = "gone"])

SetSource(p, s) ==
  /\ players[p].life = "mounted"
  /\ players[p].nChanges < MaxChanges
  /\ s # players[p].source
  /\ LET W == [World EXCEPT !.players[p].source = s,
                            !.players[p].nChanges = @ + 1]
     IN Commit(FlushReinit(IF variant = "tsx" THEN RerunRuntimeEffect(W, p)
                           ELSE SourceEffect(W, p), p))

SetSoundFontUrl(p, u) ==
  /\ players[p].life = "mounted"
  /\ players[p].nChanges < MaxChanges
  /\ u # players[p].soundFontUrl
  /\ LET W == [World EXCEPT !.players[p].soundFontUrl = u,
                            !.players[p].nChanges = @ + 1]
     IN Commit(FlushReinit(RerunRuntimeEffect(W, p), p))

\* The parent flips isDarkMode: through its own theme button (its effect
\* writes the document's data-theme after the player's effects have run) or
\* because the document's data-theme changed under its MutationObserver.
SetDarkMode(p, d, via) ==
  /\ players[p].life = "mounted"
  /\ players[p].nChanges < MaxChanges
  /\ d # players[p].isDarkMode
  /\ LET W == [World EXCEPT !.players[p].isDarkMode = d,
                            !.players[p].nChanges = @ + 1]
     IN Commit(FlushReinit(IF variant = "tsx"
                           THEN RerunRuntimeEffect(W, p)
                           ELSE ThemeEffect(W, p, IF via = "button" THEN ~d
                                                  ELSE d), p))

OpenTrackDialog(p) ==
  /\ variant # "tsx"
  /\ players[p].life = "mounted"
  /\ ~ErrorPanel(players[p])
  /\ players[p].score.tracks # {}
  /\ ~players[p].isTrackDialogOpen
  /\ Commit([World EXCEPT !.players[p].isTrackDialogOpen = TRUE])

CloseTrackDialog(p) ==
  /\ players[p].life = "mounted"
  /\ players[p].isTrackDialogOpen
  /\ Commit([World EXCEPT !.players[p].isTrackDialogOpen = FALSE])

\* The track buttons: inside the dialog (part_000, part_001) or in the side
\* list of the player branch (tsx).
TrackShown(P, t) ==
  /\ P.life = "mounted"
  /\ IF variant = "tsx"
     THEN ~ErrorPanel(P) /\ t \in P.scoreRef.tracks
     ELSE P.isTrackDialogOpen /\ t \in P.score.tracks

TrackClick(p, t) ==
  /\ TrackShown(players[p], t)
  /\ Commit(handleTrackClick(World, p, t))

ToggleLoop(p) ==
  /\ players[p].life = "mounted"
  /\ ~ErrorPanel(players[p])
  /\ Commit(toggleLoop(World, p))

EvRenderStarted(a) ==
  /\ Alive(a) /\ apis[a].owner \in Players
  /\ Commit(onRenderStarted(World, apis[a].owner, a))

EvRenderFinished(a) ==
  /\ Alive(a) /\ apis[a].owner \in Players
  /\ Commit(onRenderFinished(World, apis[a].owner, a))

EvPlayerReady(a) ==
  /\ Alive(a) /\ apis[a].owner \in Players
  /\ Commit(onPlayerReady(World, apis[a].owner, a))

\* The library finished loading what it was last given (or, in tex mode,
\* the text of its host element): by default it renders the first track,
\* then raises scoreLoaded.
EvScoreLoaded(a) ==
  /\ Alive(a) /\ apis[a].owner \in Players
  /\ apis[a].loads # <<>> \/ apis[a].tex
  /\ LET sc == IF apis[a].loads # <<>>
               THEN ScoreOf(apis[a].loads[Len(apis[a].loads)].v)
               ELSE ScoreOf(apis[a].hostText)
         first == {CHOOSE t \in sc.tracks : \A u \in sc.tracks : t <= u}
         W == [World EXCEPT !.apis[a].tracks = first]
     IN Commit(onScoreLoaded(W, apis[a].owner, a, sc))

ReadResolve(r) ==
  /\ r \in reads
  /\ Commit(resolveRead(World, r))

ReadReject(r) ==
  /\ r \in reads
  /\ Commit(rejectRead(World, r))

\* The commit of a setReinitKey made while the previous one was flushed.
Reinit(p) ==
  /\ players[p].life = "mounted"
  /\ players[p].reinit
  /\ Len(apis) < MaxApis
  /\ Commit(FlushReinit(World, p))

\* fetch answered, and the library threw on the text.
ParseThrows(r) ==
  /\ r \in reads
  /\ r.kind = "fetch"
  /\ Commit(resolveReadThrown(World, r))

\* The script element finished loading; the build it ran may or may not
\* have defined window.alphaTab.
ScriptLoad(defines) ==
  /\ script.state = "loading"
  /\ LET W0 == [World EXCEPT !.alphaTab = @ \/ defines,
                             !.script.state = "loaded"]
         W1 == IF script.on = "player" THEN SettleLoader(W0, "resolved")
               ELSE W0
         W2 == IF script.on = "simple" \/ script.listener
               THEN SettleRuntimePromise(W1, "resolved")
               ELSE W1
     IN Commit(W2)

ScriptError ==
  /\ script.state = "loading"
  /\ LET W0 == [World EXCEPT !.script.state = "failed"]
         W1 == IF script.on = "player" THEN SettleLoader(W0, "rejected")
               ELSE W0
         W2 == IF script.on = "simple" \/ script.listener
               THEN SettleRuntimePromise(W1, "rejected")
               ELSE W1
     IN Commit(W2)

SimpleMount(auto, s) ==
  /\ simple.life = "unmounted"
  /\ LET S == [NewSimple("mounted") EXCEPT !.autoLoadScript = auto,
                                           !.source = s]
     IN Commit(SimpleRuntimeEffect([World EXCEPT !.simple = S]))

SimpleUnmount ==
  /\ simple.life = "mounted"
  /\ LET n == Len(simple.waiters)
         ws == IF n > 0 THEN [simple.waiters EXCEPT ![n] = TRUE]
               ELSE simple.waiters
         W == IF simple.apiRef # 0 THEN ApiDestroy(World, simple.apiRef)
              ELSE World
     IN Commit([W EXCEPT !.simple.waiters = ws, !.simple.onApi = 0,
                         !.simple.life = "gone"])

\* The cleanup of the effect that depends on onApi, as it runs when the
\* parent renders the component with another onApi function (the old
\* function is told null; apiRef keeps pointing at the instance).
onApiChanged(W) ==
  LET S == W.simple
      W1 == IF S.apiRef # 0 THEN ApiDestroy(W, S.apiRef) ELSE W
  IN [W1 EXCEPT !.simple.onApi = 0, !.simple.onApiId = @ + 1]

SimpleRerender ==
  /\ simple.life = "mounted"
  /\ simple.onApiId < MaxChanges
  /\ Commit(onApiChanged(World))

\* scoreLoaded or playerReady of the simple player's instance:
\* setStatus("ready").
SimpleEvReady(a) ==
  /\ Alive(a) /\ apis[a].owner = 0
  /\ simple.status = "ready" \/ Len(apis) < MaxApis
  /\ Commit(SimpleSetStatus(World, "ready"))

\* ------------------------------------------------------ specifications
InitCommon ==
  /\ variant \in Variants
  /\ rt \in {r \in [loadAlphaTex : BOOLEAN, renderTracks : BOOLEAN] :
               variant = "tsx" => r.renderTracks}
  /\ script = [count |-> 0, state |-> "none", on |-> "none",
               listener |-> FALSE]
  /\ alphaTabLoader = [state |-> "null", made |-> 0]
  /\ runtimePromise = [state |-> "null", made |-> 0]
  /\ apis = <<>>
  /\ reads = {}
  /\ hist = [rid |-> 1, done |-> {}, unhandled |-> FALSE, lateCall |-> FALSE]
  /\ pure = [kind |-> "none"]

\* One AlphaTabPlayer on the page, with everything its user and the
\* library can do to it.
Init ==
  /\ InitCommon
  /\ alphaTab = FALSE
  /\ players = [p \in Players |->
                  NewPlayer(IF p = 1 THEN "unmounted" ELSE "absent")]
  /\ simple = NewSimple("absent")

Next ==
  \/ \E p \in Players, s \in AlphaTabSource, d \in BOOLEAN, f \in BOOLEAN :
       Mount(p, s, d, f)
  \/ \E p \in Players : Unmount(p)
  \/ \E p \in Players, s \in AlphaTabSource : SetSource(p, s)
  \/ \E p \in Players, u \in SoundFonts : SetSoundFontUrl(p, u)
  \/ \E p \in Players, d \in BOOLEAN, via \in {"button", "document"} :
       SetDarkMode(p, d, via)
  \/ \E p \in Players : OpenTrackDialog(p)
  \/ \E p \in Players : CloseTrackDialog(p)
  \/ \E p \in Players, t \in Tracks : TrackClick(p, t)
  \/ \E p \in Players : ToggleLoop(p)
  \/ \E a \in 1..Len(apis) : EvRenderStarted(a)
  \/ \E a \in 1..Len(apis) : EvRenderFinished(a)
  \/ \E a \in 1..Len(apis) : EvPlayerReady(a)
  \/ \E a \in 1..Len(apis) : EvScoreLoaded(a)
  \/ \E r \in reads : ReadResolve(r)
  \/ \E r \in reads : ReadReject(r)
  \/ \E r \in reads : ParseThrows(r)
  \/ \E defines \in BOOLEAN : ScriptLoad(defines)
  \/ ScriptError

Spec == Init /\ [][Next]_vars

\* The whole page: every AlphaTabPlayer slot and the simple player mount
\* and unmount in any order around the script's load or error event.
InitPage ==
  /\ InitCommon
  /\ alphaTab \in BOOLEAN
  /\ players = [p \in Players |-> NewPlayer("unmounted")]
  /\ simple = NewSimple("unmounted")

\* On the page the AlphaTabPlayer slots show a url source (Spec goes through
\* the source kinds); the simple player shows a url or an alphaTex source.
UrlSource == [type |-> "url", value |-> "u1"]

PageSources == {UrlSource, [type |-> "alphaTex", value |-> "tex1"]}

NextPage ==
  \/ \E p \in Players : Mount(p, UrlSource, FALSE, FALSE)
  \/ \E p \in Players : Unmount(p)
  \/ \E p \in Players, u \in SoundFonts : SetSoundFontUrl(p, u)
  \/ \E auto \in BOOLEAN, s \in PageSources : SimpleMount(auto, s)
  \/ SimpleUnmount
  \/ \E a \in 1..Len(apis) : SimpleEvReady(a)
  \/ \E defines \in BOOLEAN : ScriptLoad(defines)
  \/ ScriptError

SpecPage == InitPage /\ [][NextPage]_vars


\* ------------------------------------------------------------ the claims
OwnedBy(p) == {a \in 1..Len(apis) : apis[a].owner = p}
Waiting(p) == players[p].waiters # <<>> /\
              ~players[p].waiters[Len(players[p].waiters)]

\* C1: however the players and the simple player mount while window.alphaTab
\* is undefined, the document never holds more than one script element with
\* the CDN src, each module creates at most one loader promise, and every
\* effect run that is waiting waits on that promise while it is pending.
C1_OneScriptOnePromise ==
  /\ script.count <= 1
  /\ alphaTabLoader.made <= 1
  /\ runtimePromise.made <= 1
  /\ \A p \in Players :
       players[p].waiters # <<>> => alphaTabLoader.state = "pending"

C1_Witness ==
  /\ script.count = 1
  /\ \A p \in Players : Waiting(p)
  /\ simple.waiters = <<FALSE>>
  /\ alphaTabLoader.made = 1 /\ runtimePromise.made = 1

\* C2: once the script's error event has rejected the loader, every mounted
\* AlphaTabPlayer has a non-empty error message, shows the error panel and
\* has constructed no API instance.
C2_ScriptErrorShown ==
  alphaTabLoader.state = "rejected" =>
    \A p \in Players :
      players[p].life = "mounted" =>
        /\ players[p].error # NoError
        /\ players[p].error # ""
        /\ ErrorPanel(players[p])
        /\ players[p].apiRef = 0
        /\ OwnedBy(p) = {}

C2_Witness ==
  /\ alphaTabLoader.state = "rejected"
  /\ \A p \in Players :
       players[p].life = "mounted" /\ players[p].error = MsgLoadFail

\* C3: after a player has unmounted, apiRef is null and every instance it
\* constructed has been destroyed; so a player that unmounted while the
\* script was loading never gets an instance when the load completes.
C3_UnmountDestroys ==
  \A p \in Players :
    players[p].life = "gone" =>
      /\ players[p].apiRef = 0
      /\ \A a \in OwnedBy(p) : apis[a].destroyed >= 1

C3_Witness ==
  \E p \in Players :
    /\ players[p].life = "gone"
    /\ Cardinality(OwnedBy(p)) >= 2
    /\ \A a \in OwnedBy(p) : apis[a].destroyed >= 1

\* C4: once the loader promise has rejected it stays rejected, no script
\* element is appended any more, and a player that mounts afterwards gets
\* the rejection at once instead of waiting for a new attempt.
C4_NoRetry ==
  [][alphaTabLoader.state = "rejected" =>
       /\ alphaTabLoader' = alphaTabLoader
       /\ script'.count = script.count
       /\ \A p \in Players :
            (players[p].life = "unmounted" /\ players'[p].life = "mounted")
              => (players'[p].waiters = <<>> /\
                  players'[p].error = MsgLoadFail)]_vars

C4_Witness ==
  /\ alphaTabLoader.state = "rejected"
  /\ hist.lateCall
  /\ \E p \in Players : players[p].life = "mounted" /\
                        players[p].error = MsgLoadFail

\* C5: once the error panel is displayed it stays displayed, with an error
\* message, for as long as the component is mounted.
C5_ErrorSticky ==
  [][\A p \in Players :
       (players[p].life = "mounted" /\ ErrorPanel(players[p]) /\
        players'[p].life = "mounted")
         => (ErrorPanel(players'[p]) /\ players'[p].error # NoError)]_vars

FailedReads == {d \in hist.done : d.src.type = "file" /\ ~d.ok}

\* C7: a file read that rejects never leads to a load call, the step that
\* delivers the rejection sets the error message of the (mounted) player
\* and shows the error panel, and no rejection is left unhandled.
C7_ReadRejectionCaught ==
  /\ [](/\ ~hist.unhandled
        /\ \A d \in FailedReads : \A a \in 1..Len(apis) :
             \A i \in 1..Len(apis[a].loads) : apis[a].loads[i].rid # d.id)
  /\ [][\A r \in reads :
          (r.kind = "read" /\ r \notin reads' /\
           [id |-> r.id, src |-> r.src, ok |-> FALSE] \in hist'.done)
            => /\ apis' = apis
               /\ players[r.p].life = "mounted" =>
                    (players'[r.p].error = MsgReadFail /\
                     ErrorPanel(players'[r.p]))]_vars

C7_Witness ==
  \E d \in FailedReads : \E p \in Players :
    players[p].life = "mounted" /\ players[p].error = MsgReadFail

\* C8: every load call made for a file source passes the buffer read from
\* that very file, and the read it comes from has completed.
C8_LoadAfterRead ==
  \A a \in 1..Len(apis) : \A i \in 1..Len(apis[a].loads) :
    LET c == apis[a].loads[i]
    IN (apis[a].owner \in Players /\ c.src.type = "file") =>
         /\ c.m = "load" /\ c.k = "buffer"
         /\ c.v = BufferOf(c.src.value)
         /\ [id |-> c.rid, src |-> c.src, ok |-> TRUE] \in hist.done

C8_Witness ==
  \E a \in 1..Len(apis) : \E i \in 1..Len(apis[a].loads) :
    apis[a].loads[i].src.type = "file" /\ apis[a].loads[i].v = "bytesA"

\* C9 (as claimed): a click on a track flips its membership in activeTracks.
C9_ClickToggles ==
  [][\A p \in Players, t \in Tracks :
       TrackClick(p, t) =>
         (t \in players'[p].activeTracks <=> t \notin players[p].activeTracks)
    ]_vars

\* C9 (amended): with an instance, the dialog player (part_000, part_001)
\* activates an inactive track and deactivates an active one unless it is
\* the only active track, which stays active; the tsx player makes the
\* clicked track the only active one; without an instance (or without
\* renderTracks in the dialog player) the click changes nothing.
C9_ClickAmended ==
  [][\A p \in Players, t \in Tracks :
       TrackClick(p, t) =>
         LET prev == players[p].activeTracks
             post == players'[p].activeTracks
             inert == players[p].apiRef = 0 \/
                      (variant # "tsx" /\ ~rt.renderTracks)
         IN IF inert THEN post = prev /\ apis' = apis
            ELSE IF variant = "tsx" THEN post = {t}
            ELSE IF t \notin prev THEN post = prev \cup {t}
            ELSE IF prev = {t} THEN post = prev
            ELSE post = prev \ {t}]_vars

C9_Witness ==
  \E p \in Players :
    /\ variant = "p000"
    /\ players[p].apiRef # 0
    /\ players[p].isTrackDialogOpen
    /\ players[p].activeTracks = {1}
    /\ apis[players[p].apiRef].tracks = {1}

\* C10: with an instance, toggleLoop sets the component's isLooping and the
\* instance's isLooping to the negation of the component's previous value;
\* without an instance it changes neither.
C10_ToggleLoop ==
  [][\A p \in Players :
       ToggleLoop(p) =>
         LET a == players[p].apiRef
         IN IF a # 0
            THEN /\ players'[p].isLooping = ~players[p].isLooping
                 /\ apis'[a].isLooping = ~players[p].isLooping
                 /\ apis'[a].isLooping = players'[p].isLooping
            ELSE players' = players /\ apis' = apis]_vars

C10_Witness ==
  \E p \in Players :
    /\ players[p].apiRef # 0
    /\ players[p].isLooping
    /\ apis[players[p].apiRef].isLooping
    /\ Cardinality(OwnedBy(p)) >= 2


\* ------------------------------------------------ applyScoreColors
\* The score model of the library, as far as applyScoreColors walks it:
\* score > tracks > staves > bars > voices > beats > notes.  A style is an
\* object created by one call (gen: which call) or null.
MaxKids == 2        \* children per element of a score
MaxCalls == 2       \* applyScoreColors calls on one score

NullStyle == [cls |-> "null", gen |-> 0]
OrigStyle == [cls |-> "orig", gen |-> 0]
NewStyle(cls, gen) == [cls |-> cls, gen |-> gen]

NullScore == [style |-> NullStyle, tracks |-> <<>>, missing |-> TRUE]

Rep(n, x) == [i \in 1..n |-> x]

MkScore(k, st) ==
  LET note == [style |-> st]
      beat == [style |-> st, notes |-> Rep(k[6], note)]
      voice == [style |-> st, beats |-> Rep(k[5], beat)]
      bar == [style |-> st, voices |-> Rep(k[4], voice)]
      staff == [style |-> st, bars |-> Rep(k[3], bar)]
      track == [style |-> st, staves |-> Rep(k[2], staff)]
  IN [style |-> st, tracks |-> Rep(k[1], track), missing |-> FALSE]

Map(s, F(_)) == [i \in 1..Len(s) |-> F(s[i])]

\* resetColors(score), level by level.
resetNote(n) == [n EXCEPT !.style = NullStyle]
\* resetColors that stops at the beats and leaves the notes as they are.
resetBeatShallow(b) == [b EXCEPT !.style = NullStyle]

resetBeat(b) == [b EXCEPT !.style = NullStyle, !.notes = Map(@, resetNote)]
resetVoice(v) == [v EXCEPT !.style = NullStyle, !.beats = Map(@, resetBeat)]
resetBar(b) == [b EXCEPT !.style = NullStyle, !.voices = Map(@, resetVoice)]
resetStaff(st) == [st EXCEPT !.bars = Map(@, resetBar)]
resetTrack(t) == [t EXCEPT !.style = NullStyle, !.staves = Map(@, resetStaff)]
resetColors(sc) == [sc EXCEPT !.style = NullStyle, !.tracks = Map(@, resetTrack)]

\* The dark branch: x.style = new model.XStyle() on the way down.
darkNote(n, g) == [n EXCEPT !.style = NewStyle("NoteStyle", g)]
darkBeat(b, g) ==
  LET F(n) == darkNote(n, g)
  IN [b EXCEPT !.style = NewStyle("BeatStyle", g), !.notes = Map(@, F)]
darkVoice(v, g) ==
  LET F(b) == darkBeat(b, g)
  IN [v EXCEPT !.style = NewStyle("VoiceStyle", g), !.beats = Map(@, F)]
darkBar(b, g) ==
  LET F(v) == darkVoice(v, g)
  IN [b EXCEPT !.style = NewStyle("BarStyle", g), !.voices = Map(@, F)]
darkStaff(st, g) ==
  LET F(b) == darkBar(b, g)
  IN [st EXCEPT !.bars = Map(@, F)]
darkTrack(t, g) ==
  LET F(st) == darkStaff(st, g)
  IN [t EXCEPT !.style = NewStyle("TrackStyle", g), !.staves = Map(@, F)]
darkColors(sc, g) ==
  LET F(t) == darkTrack(t, g)
  IN [sc EXCEPT !.style = NewStyle("ScoreStyle", g), !.tracks = Map(@, F)]

\* applyScoreColors(scoreToColor, darkMode) on the score model; g numbers
\* the call, hasModel is window.alphaTab.model.
colorScore(sc, darkMode, hasAlphaTab, hasModel, g) ==
  IF ~hasAlphaTab \/ sc.missing THEN sc
  ELSE IF ~hasModel THEN sc
  ELSE IF ~darkMode THEN resetColors(sc)
  ELSE darkColors(sc, g)

\* The styles of the elements of a score, staves apart.
Flat(S) == UNION S
TracksOf(sc) == {sc.tracks[i] : i \in 1..Len(sc.tracks)}
StavesOf(sc) ==
  Flat({{t.staves[i] : i \in 1..Len(t.staves)} : t \in TracksOf(sc)})
BarsOf(sc) == Flat({{x.bars[i] : i \in 1..Len(x.bars)} : x \in StavesOf(sc)})
VoicesOf(sc) ==
  Flat({{x.voices[i] : i \in 1..Len(x.voices)} : x \in BarsOf(sc)})
BeatsOf(sc) ==
  Flat({{x.beats[i] : i \in 1..Len(x.beats)} : x \in VoicesOf(sc)})
NotesOf(sc) ==
  Flat({{x.notes[i] : i \in 1..Len(x.notes)} : x \in BeatsOf(sc)})
StylesOf(sc) ==
  {sc.style} \cup {x.style : x \in TracksOf(sc)}
             \cup {x.style : x \in BarsOf(sc)}
             \cup {x.style : x \in VoicesOf(sc)}
             \cup {x.style : x \in BeatsOf(sc)}
             \cup {x.style : x \in NotesOf(sc)}

Quiet ==
  /\ variant = "p000"
  /\ rt = [loadAlphaTex |-> TRUE, renderTracks |-> TRUE]
  /\ script = [count |-> 0, state |-> "none", on |-> "none",
               listener |-> FALSE]
  /\ alphaTabLoader = [state |-> "null", made |-> 0]
  /\ runtimePromise = [state |-> "null", made |-> 0]
  /\ apis = <<>>
  /\ reads = {}
  /\ hist = [rid |-> 1, done |-> {}, unhandled |-> FALSE, lateCall |-> FALSE]
  /\ players = [p \in Players |-> NewPlayer("absent")]
  /\ simple = NewSimple("absent")

rest == <<variant, rt, alphaTab, script, alphaTabLoader, runtimePromise,
          players, simple, apis, reads, hist>>

InitColors ==
  /\ Quiet
  /\ alphaTab \in BOOLEAN
  /\ \E k \in [1..6 -> 0..MaxKids], st \in {NullStyle, OrigStyle},
        m \in BOOLEAN, none \in BOOLEAN :
       pure = [kind |-> "colors", hasModel |-> m, log |-> <<>>,
               score |-> IF none THEN NullScore ELSE MkScore(k, st)]

ApplyColors(darkMode) ==
  /\ pure.kind = "colors"
  /\ Len(pure.log) < MaxCalls
  /\ pure' = [pure EXCEPT
                !.log = Append(@, darkMode),
                !.score = colorScore(@, darkMode, alphaTab, pure.hasModel,
                                     Len(pure.log) + 1)]
  /\ UNCHANGED rest

NextColors == \E d \in BOOLEAN : ApplyColors(d)

SpecColors == InitColors /\ [][NextColors]_vars

\* C11: a dark call gives the score and every track, bar, voice, beat and
\* note a style created by that call; a light call sets all those styles
\* to null; a call without window.alphaTab (or its model) or without a
\* score changes nothing.
C11_ColorsWalkTheTree ==
  [][\A d \in BOOLEAN :
       ApplyColors(d) =>
         LET g == Len(pure'.log)
             after == StylesOf(pure'.score)
         IN IF ~alphaTab \/ ~pure.hasModel \/ pure.score.missing
            THEN pure'.score = pure.score
            ELSE IF d
                 THEN /\ \A s \in after : s # NullStyle /\ s.gen = g
                      /\ pure'.score.style.cls = "ScoreStyle"
                      /\ \A x \in NotesOf(pure'.score) :
                           x.style = NewStyle("NoteStyle", g)
                 ELSE after = {NullStyle}]_vars

C11_Witness ==
  /\ pure.kind = "colors" /\ pure.log = <<TRUE, FALSE>>
  /\ alphaTab /\ pure.hasModel
  /\ Cardinality(NotesOf(pure.score)) >= 1
  /\ Len(pure.score.tracks) = 2
  /\ StylesOf(pure.score) = {NullStyle}


\* C12: a score coloured for dark mode carries colours resolved under the
\* dark theme, never colours resolved while the document still said light.
C12_DarkTones ==
  \A p \in Players :
    (players[p].life = "mounted" /\ players[p].scoreDark)
      => players[p].scoreTone.theme # "light"


\* ------------------------------------------------------------------ C13
PlayerCalls ==
  UNION {{<<a, i>> : i \in 1..Len(apis[a].loads)} :
           a \in {b \in 1..Len(apis) : apis[b].owner # 0}}

RouteOf(c) ==
  CASE c.src.type = "url" ->
         c.m = "load" /\ c.k = "url" /\ c.v = c.src.value
    [] c.src.type = "arrayBuffer" ->
         c.m = "load" /\ c.k = "buffer" /\ c.v = c.src.value
    [] c.src.type = "file" ->
         c.m = "load" /\ c.k = "buffer" /\ c.v = BufferOf(c.src.value)
    [] c.src.type = "alphaTex" ->
         rt.loadAlphaTex =>
           c.m = "loadAlphaTex" /\ c.k = "text" /\ c.v = c.src.value

\* A finished read was handed to the library exactly once.
OncePerRead(types) ==
  \A d \in hist.done :
    (d.ok /\ d.src.type \in types) =>
      Cardinality({x \in PlayerCalls :
                     apis[x[1]].loads[x[2]].rid = d.id}) = 1

\* C13: every call a player makes into the library is the entry point of
\* its source type: load(url), load(buffer), load(buffer read from the
\* file), loadAlphaTex(text) when the instance has loadAlphaTex; and a
\* source that was read is handed over exactly once.
C13_OneEntryPoint ==
  /\ \A x \in PlayerCalls : RouteOf(apis[x[1]].loads[x[2]])
  /\ OncePerRead({"url", "file"})

\* C13 as the code has it: the url case goes to load(url) unless the player
\* was given forceAlphaTex (part_000 only).
C13_Amended ==
  /\ \A x \in PlayerCalls :
       LET c == apis[x[1]].loads[x[2]]
       IN (c.src.type = "url" /\ players[apis[x[1]].owner].forceAlphaTex)
          \/ RouteOf(c)
  /\ OncePerRead({"file"})

C13_Witness ==
  /\ rt.loadAlphaTex
  /\ \A t \in {"file", "alphaTex"} :
       \E x \in PlayerCalls : apis[x[1]].loads[x[2]].src.type = t


\* ------------------------------------------------------------------ C14
ForcedCalls ==
  {x \in PlayerCalls :
     apis[x[1]].loads[x[2]].src.type = "url"
       /\ players[apis[x[1]].owner].forceAlphaTex}

TextCall(c) ==
  /\ c.m = (IF rt.loadAlphaTex THEN "loadAlphaTex" ELSE "load")
  /\ c.k = "text"
  /\ c.v = TextOf(c.src.value)

FetchFailed(id) == \E d \in hist.done : d.id = id /\ ~d.ok

\* C14: with forceAlphaTex a url source reaches the library only after the
\* fetch: as the fetched text through loadAlphaTex (load without it), or as
\* load(url) when the fetch failed or the call taking the text threw; and
\* the failed fetch leaves the error message as it was.
C14_ForcedFetch ==
  /\ [](\A x \in ForcedCalls :
          LET c == apis[x[1]].loads[x[2]]
          IN /\ c.rid # 0
             /\ \/ TextCall(c) /\ ~FetchFailed(c.rid)
                \/ /\ c.m = "load" /\ c.k = "url" /\ c.v = c.src.value
                   /\ \/ FetchFailed(c.rid)
                      \/ /\ x[2] > 1
                         /\ TextCall(apis[x[1]].loads[x[2] - 1])
                         /\ apis[x[1]].loads[x[2] - 1].rid = c.rid)
  /\ [][\A r \in reads :
          (r.kind = "fetch" /\ ReadReject(r)) =>
            /\ players'[r.p].error = players[r.p].error
            /\ \E i \in 1..Len(apis'[r.api].loads) :
                 LET c == apis'[r.api].loads[i]
                 IN c.rid = r.id /\ c.m = "load" /\ c.k = "url"]_vars

C14_Witness ==
  /\ \E x \in ForcedCalls : TextCall(apis[x[1]].loads[x[2]])
  /\ \E x \in ForcedCalls :
       apis[x[1]].loads[x[2]].k = "url"
         /\ FetchFailed(apis[x[1]].loads[x[2]].rid)


\* ------------------------------------------------------------------ C15
SimpleApis == {a \in 1..Len(apis) : apis[a].owner = 0}

\* C15: mounted with autoLoadScript = false the simple player appends no
\* script; without window.alphaTab it ends the mount in status "error" with
\* a message and no instance, and stays so; with window.alphaTab it gets to
\* "ready", from where its score effect builds the instance and moves on to
\* "loading-score".
C15_NoAutoLoad ==
  /\ [][\A s \in PageSources :
          SimpleMount(FALSE, s) =>
            /\ script' = script
            /\ runtimePromise' = runtimePromise
            /\ IF alphaTab
               THEN /\ simple'.status = "loading-score"
                    /\ simple'.error = NoError
                    /\ simple'.apiRef \in SimpleApis'
               ELSE /\ simple'.status = "error"
                    /\ simple'.error = MsgNotInjected
                    /\ simple'.error # NoError
                    /\ simple'.apiRef = 0]_vars
  /\ []((simple.life = "mounted" /\ simple.error = MsgNotInjected) =>
          simple.status = "error" /\ SimpleApis = {})

C15_Witness ==
  /\ simple.life = "mounted" /\ ~simple.autoLoadScript
  /\ simple.status = "error" /\ simple.error = MsgNotInjected
  /\ alphaTab /\ script.on = "player"


\* -------------------------------------------------------------- getPath
\* A string is a sequence of tokens: "/", "_", letters, and whole words
\* that play a part as a unit ("posts", the parts of BLOG_PATH).
MaxLen == 4         \* tokens of a file path below BLOG_PATH

Alphabet == {"/", "_", "a", "B"}

BLOG_PATH == <<"src", "/", "data", "/", "blog">>

Ids == {<<>>, <<"x">>, <<"posts">>, <<"a", "/", "x">>, <<"a", "/">>}

Undefined == [type |-> "undefined", s |-> <<>>]
Str(s) == [type |-> "string", s |-> s]

SlugOverrides ==
  {Undefined, [type |-> "number", s |-> <<>>], Str(<<>>), Str(<<"s">>)}

\* Locations of posts: BLOG_PATH, "/", then directories and a file name.
FilePaths ==
  {Undefined} \cup
  {Str(BLOG_PATH \o <<"/">> \o r) :
     r \in {q \in UNION {[1..n -> Alphabet] : n \in 1..MaxLen} :
              q[Len(q)] # "/"}}

startsWith(s, pre) ==
  Len(s) >= Len(pre) /\ SubSeq(s, 1, Len(pre)) = pre

\* String.prototype.replace(pattern, ""): the first occurrence goes.
RECURSIVE replace(_, _)
replace(s, pat) ==
  IF s = <<>> THEN <<>>
  ELSE IF startsWith(s, pat) THEN SubSeq(s, Len(pat) + 1, Len(s))
       ELSE <<Head(s)>> \o replace(Tail(s), pat)

\* String.prototype.split("/")
RECURSIVE split(_)
split(s) ==
  IF \A i \in 1..Len(s) : s[i] # "/" THEN <<s>>
  ELSE LET i == CHOOSE j \in 1..Len(s) :
                  s[j] = "/" /\ \A h \in 1..(j - 1) : s[h] # "/"
       IN <<SubSeq(s, 1, i - 1)>> \o split(SubSeq(s, i + 1, Len(s)))

\* Array.prototype.join("/")
RECURSIVE join(_)
join(parts) ==
  IF parts = <<>> THEN <<>>
  ELSE IF Len(parts) = 1 THEN parts[1]
       ELSE parts[1] \o <<"/">> \o join(Tail(parts))

\* Array.prototype.slice(0, -1)
slice0m1(a) == IF a = <<>> THEN <<>> ELSE SubSeq(a, 1, Len(a) - 1)

\* slugifyStr: lower case, hyphens for what is not a letter or a digit.
slugifyStr(seg) ==
  [i \in 1..Len(seg) |-> IF seg[i] = "B" THEN "b" ELSE seg[i]]

NotEmpty(seg) == seg # <<>>
NotUnderscore(seg) == ~startsWith(seg, <<"_">>)

\* pathSegments of getPath, for a defined filePath.
pathSegments(filePath) ==
  LET a == slice0m1(SelectSeq(SelectSeq(split(replace(filePath.s, BLOG_PATH)),
                                        NotEmpty), NotUnderscore))
  IN [i \in 1..Len(a) |-> slugifyStr(a[i])]

\* The slug taken to be the whole id.
defaultSlugWhole(id) == id

\* blogId[blogId.length - 1]
defaultSlug(id) == LET blogId == split(id) IN blogId[Len(blogId)]

getPath(id, filePath, includeBase, slugOverride) ==
  LET basePath == IF includeBase THEN <<"/", "posts">> ELSE <<>>
      slug == IF slugOverride.type = "string" THEN slugOverride.s
              ELSE defaultSlug(id)
  IN IF filePath.type = "undefined" \/ Len(pathSegments(filePath)) < 1
     THEN join(<<basePath, slug>>)
     ELSE join(<<basePath>> \o pathSegments(filePath) \o <<slug>>)

InitPath ==
  /\ Quiet
  /\ alphaTab = FALSE
  /\ \E id \in Ids, f \in FilePaths, b \in BOOLEAN, o \in SlugOverrides :
       pure = [kind |-> "path", id |-> id, filePath |-> f,
               includeBase |-> b, slugOverride |-> o, called |-> FALSE,
               result |-> <<>>]

CallGetPath ==
  /\ pure.kind = "path"
  /\ ~pure.called
  /\ pure' = [pure EXCEPT
                !.called = TRUE,
                !.result = getPath(pure.id, pure.filePath, pure.includeBase,
                                   pure.slugOverride)]
  /\ UNCHANGED rest

NextPath == CallGetPath

SpecPath == InitPath /\ [][NextPath]_vars

\* ------------------------------------------------------------------ C16
\* The directory segments of a location: what lies between BLOG_PATH and
\* the file name.
DirSegments(filePath) ==
  IF filePath.type = "undefined" THEN <<>>
  ELSE slice0m1(SelectSeq(split(replace(filePath.s, BLOG_PATH)), NotEmpty))

KeptSegments(filePath) ==
  LET a == SelectSeq(DirSegments(filePath), NotUnderscore)
  IN [i \in 1..Len(a) |-> slugifyStr(a[i])]

\* C16: the result is base, the kept directory segments and the slug joined
\* by "/", the kept ones being the directory segments that do not start
\* with "_", slugified, in order; the file name is what is dropped, also
\* when it starts with "_".
C16_KeptSegments ==
  (pure.kind = "path" /\ pure.called) =>
    LET base == IF pure.includeBase THEN <<"/", "posts">> ELSE <<>>
        slug == IF pure.slugOverride.type = "string" THEN pure.slugOverride.s
                ELSE defaultSlug(pure.id)
    IN pure.result =
         join(<<base>> \o KeptSegments(pure.filePath) \o <<slug>>)


\* ------------------------------------------------------------------ C17
endsWith(s, suf) ==
  Len(s) >= Len(suf) /\ SubSeq(s, Len(s) - Len(suf) + 1, Len(s)) = suf

\* The part of a string after its last "/".
AfterLastSlash(s) ==
  LET at == {i \in 1..Len(s) : s[i] = "/"}
      last == IF at = {} THEN 0 ELSE CHOOSE i \in at : \A j \in at : j <= i
  IN SubSeq(s, last + 1, Len(s))

FinalSegmentOk ==
  IF pure.slugOverride.type = "string"
  THEN endsWith(pure.result, <<"/">> \o pure.slugOverride.s)
  ELSE endsWith(pure.result, <<"/">> \o AfterLastSlash(pure.id))
         /\ AfterLastSlash(pure.result) = AfterLastSlash(pure.id)

\* C17: the result begins with "/", with "/posts/" when includeBase is true
\* and without a "/posts" prefix when it is false; it ends with the part of
\* id after its last "/", or with slugOverride when that is a string.
C17_BaseAndSlug ==
  (pure.kind = "path" /\ pure.called) =>
    /\ startsWith(pure.result, <<"/">>)
    /\ pure.includeBase => startsWith(pure.result, <<"/", "posts", "/">>)
    /\ ~pure.includeBase => ~startsWith(pure.result, <<"/", "posts">>)
    /\ FinalSegmentOk

\* C17 as the code has it: with includeBase false nothing stands before the
\* first "/", and what follows it is the segments and the slug, whatever
\* they are.
C17_Amended ==
  (pure.kind = "path" /\ pure.called) =>
    LET segs == IF pure.filePath.type = "undefined" THEN <<>>
                ELSE pathSegments(pure.filePath)
        slug == IF pure.slugOverride.type = "string"
                THEN pure.slugOverride.s
                ELSE AfterLastSlash(pure.id)
        tail == join(segs \o <<slug>>)
    IN /\ startsWith(pure.result, <<"/">>)
       /\ pure.includeBase => pure.result = <<"/", "posts", "/">> \o tail
       /\ ~pure.includeBase => pure.result = <<"/">> \o tail
       /\ FinalSegmentOk

C17_Witness ==
  /\ pure.kind = "path" /\ pure.called
  /\ ~pure.includeBase
  /\ pure.id = <<"posts">>
  /\ pure.slugOverride.type = "number"
  /\ pure.filePath.type = "undefined"
  /\ pure.result = <<"/", "posts">>


\* ------------------------------------------------------------------ C18
\* C18: once the simple player's instance reports its score loaded (or its
\* player ready), the component keeps that instance: it is not destroyed,
\* no other instance is built and no load is issued again.
C18_KeepsInstance ==
  [][\A a \in 1..Len(apis) :
       SimpleEvReady(a) =>
         /\ Len(apis') = Len(apis)
         /\ apis'[a].destroyed = 0
         /\ apis'[a].loads = apis[a].loads
         /\ simple'.apiRef = a]_vars


\* ------------------------------------------------------------------ C19
\* The tex fallback: a player of part_000 on a runtime without
\* loadAlphaTex, given alphaTex sources, the empty text among them (the
\* app's "AT:" shorthand with nothing after it).
TexSources ==
  {[type |-> "alphaTex", value |-> "tex1"],
   [type |-> "alphaTex", value |-> ""],
   [type |-> "url", value |-> "u1"]}

InitTex ==
  /\ InitCommon
  /\ variant = "p000"
  /\ ~rt.loadAlphaTex
  /\ alphaTab = FALSE
  /\ players = [p \in Players |->
                  NewPlayer(IF p = 1 THEN "unmounted" ELSE "absent")]
  /\ simple = NewSimple("absent")

NextTex ==
  \/ \E p \in Players, s \in TexSources, d \in BOOLEAN :
       Mount(p, s, d, FALSE)
  \/ \E p \in Players : Unmount(p)
  \/ \E p \in Players, s \in TexSources : SetSource(p, s)
  \/ \E p \in Players, u \in SoundFonts : SetSoundFontUrl(p, u)
  \/ \E p \in Players : Reinit(p)
  \/ \E a \in 1..Len(apis) : EvScoreLoaded(a)
  \/ \E defines \in BOOLEAN : ScriptLoad(defines)
  \/ ScriptError

SpecTex == InitTex /\ [][NextTex]_vars

TexFallbackPlayers ==
  {p \in Players :
     /\ variant = "p000" /\ ~rt.loadAlphaTex
     /\ players[p].life = "mounted"
     /\ players[p].source.type = "alphaTex"
     /\ players[p].apiRef # 0}

\* C19: a player of part_000 showing an alphaTex source on a runtime
\* without loadAlphaTex rests on the one rebuilt instance: built with
\* core.tex, the host holding the text, nothing pending, no rebuild asked
\* for and no load issued on it.
C19_OneRebuild ==
  \A p \in TexFallbackPlayers :
    LET A == apis[players[p].apiRef]
    IN /\ A.tex
       /\ A.hostText = players[p].source.value
       /\ players[p].pendingAlphaTexRef = NoTex
       /\ ~players[p].reinit
       /\ A.loads = <<>>


\* ------------------------------------------------------------------ C20
\* The simple player alone, under a parent that may render it again with
\* another onApi function.
InitSimple ==
  /\ InitCommon
  /\ alphaTab \in BOOLEAN
  /\ players = [p \in Players |-> NewPlayer("absent")]
  /\ simple = NewSimple("unmounted")

SimpleSources ==
  PageSources \cup {[type |-> "file", value |-> "fA"],
                    [type |-> "arrayBuffer", value |-> "bytes0"]}

NextSimple ==
  \/ \E auto \in BOOLEAN, s \in SimpleSources : SimpleMount(auto, s)
  \/ SimpleUnmount
  \/ SimpleRerender
  \/ \E a \in 1..Len(apis) : SimpleEvReady(a)
  \/ \E defines \in BOOLEAN : ScriptLoad(defines)
  \/ ScriptError

SpecSimple == InitSimple /\ [][NextSimple]_vars

\* C20: an instance of the simple player is destroyed only by the unmount
\* or by the creation of its successor, and at most once; while the
\* component is mounted and holds an instance, the last thing onApi was
\* told is that instance, never null.
C20_DestroyOnlyAtEnd ==
  /\ [][\A a \in SimpleApis :
          apis'[a].destroyed > apis[a].destroyed =>
            /\ apis'[a].destroyed = 1
            /\ \/ simple.life = "mounted" /\ simple'.life = "gone"
               \/ Len(apis') > Len(apis) /\ simple'.apiRef = Len(apis')]_vars
  /\ []((simple.life = "mounted" /\ simple.apiRef # 0) =>
          simple.onApi = simple.apiRef)


\* ------------------------------------------------------------------ C21
\* C21: nothing is called on an instance once destroy has been called on
\* it: its list of load calls and its rendered tracks stay as destroy left
\* them, also when a file read or a fetch started for it completes later.
C21_NoUseAfterDestroy ==
  [][\A a \in 1..Len(apis) :
       apis[a].destroyed > 0 =>
         /\ apis'[a].loads = apis[a].loads
         /\ apis'[a].tracks = apis[a].tracks]_vars


\* ------------------------------------------------------------------ C22
\* A read started for a source the player no longer shows.
Stale(r) ==
  /\ r.kind = "read"
  /\ players[r.p].life = "mounted"
  /\ r.src # players[r.p].source

\* C22: when the read of a file the player no longer shows completes, the
\* instance the player holds receives no load for it: what the library
\* loaded last stays the current source.
C22_StaleReadDropped ==
  [][\A r \in reads :
       (Stale(r) /\ ReadResolve(r)) =>
         \A a \in 1..Len(apis) :
           a = players[r.p].apiRef => apis'[a].loads = apis[a].loads]_vars


\* ------------------------------------------------------------------ C23
LiveOf(p) == {a \in OwnedBy(p) : apis[a].destroyed = 0}

\* C23: a mounted player has at most one instance that was constructed and
\* not destroyed, and apiRef is null or that instance.
C23_OneLiveInstance ==
  \A p \in Players :
    players[p].life = "mounted" =>
      /\ Cardinality(LiveOf(p)) <= 1
      /\ players[p].apiRef # 0 => LiveOf(p) = {players[p].apiRef}

C23_Witness ==
  \E p \in Players :
    /\ players[p].life = "mounted"
    /\ players[p].apiRef # 0
    /\ Cardinality(OwnedBy(p)) >= 2
    /\ LiveOf(p) = {players[p].apiRef}

====
